---- MODULE Spec2Model ----
(***************************************************************************)
(* Model of LGHUB_Profile_Editor_V3.py: the settings.db rows (one JSON     *)
(* document per row), the in-memory profile collection built by            *)
(* load_profiles_from_db, the form variables of GHubEditorApp and the      *)
(* button / listbox handlers that read and write them.                     *)
(***************************************************************************)
EXTENDS Integers, Sequences, FiniteSets, TLC

VARIABLES
    db,        \* table DATA in storage order: <<[id, blob], ...>>
    files,     \* paths at which a decodable bitmap file exists
    mem,       \* parsed_data objects of the last load, by row id
    profiles,  \* self.profiles: <<[db_row_id, pos], ...>>, pos a reference
               \* into mem[db_row_id].apps (the shared "profile" object)
    selected_profile_index,
    name_entry_var,
    app_path_var,
    icon_path_var,
    dialog,    \* the last message box (or callback traceback) shown
    last,      \* the last handler run and the outcome of its I/O
    ops        \* handlers run so far

vars == <<db, files, mem, profiles, selected_profile_index,
          name_entry_var, app_path_var, icon_path_var, dialog, last, ops>>

\* ------------------------------------------------------------------ bounds
MaxOps == 4       \* handlers run in one session
MaxApps == 3      \* add_entry is not taken on a list already this long

\* ----------------------------------------------------------------- strings
None == "None"         \* the value of a call that returns nothing
NoIndex == 0           \* selected_profile_index = None; listbox rows count from 1
Absent == "<absent>"      \* a key the JSON object does not have
NoDoc == [hasApps |-> FALSE, apps |-> <<>>, parsed |-> FALSE]

TypedNames == {"a", "X"}
TypedAppPaths == {"app.exe"}
TypedIconPaths == {"/typed/none.bmp", " "}

\* dict.get(key, default)
Get(value, default) == IF value = Absent THEN default ELSE value

\* str.lower()
Lower(s) ==
    CASE s = "B" -> "b"
      [] s = "X" -> "x"
      [] s = "New Entry" -> "new entry"
      [] OTHER -> s

\* position of a name in Python's (code point) string order
StrRank(s) ==
    CASE s = "" -> 0
      [] s = "B" -> 1
      [] s = "New Entry" -> 2
      [] s = "X" -> 3
      [] s = "a" -> 4
      [] s = "b" -> 5
      [] s = "new entry" -> 6
      [] s = "x" -> 7
      [] OTHER -> 8

SortKey_CaseSensitive(prof) == StrRank(Get(prof.name, ""))

\* the sort key of line 116
SortKey(prof) == StrRank(Lower(Get(prof.name, "")))

\* str.strip()
Strip(s) ==
    CASE s = " " -> ""
      [] OTHER -> s

\* lines 406-407: app_name, then safe_name
SafeName(name) ==
    LET app_name == IF Strip(Get(name, "")) = "" THEN "app_unknown"
                    ELSE Strip(Get(name, ""))
    IN  CASE app_name = "New Entry" -> "New_Entry"
          [] OTHER -> app_name

\* os.path.join(self.icon_cache_folder, safe_name + ".bmp")
CachePath(safe_name) ==
    CASE safe_name = "a" -> "cache/a.bmp"
      [] safe_name = "B" -> "cache/B.bmp"
      [] safe_name = "b" -> "cache/b.bmp"
      [] safe_name = "X" -> "cache/X.bmp"
      [] safe_name = "New_Entry" -> "cache/New_Entry.bmp"
      [] safe_name = "app_unknown" -> "cache/app_unknown.bmp"
      [] OTHER -> "cache/icon.bmp"

\* os.path.splitext(existing_path)[0] + ".bmp"
ForceBmp(path) ==
    CASE path = "/x/old.png" -> "/x/old.bmp"
      [] OTHER -> path

\* ------------------------------------------------------------- documents
Profile(name, poster, appId) ==
    [name |-> name, applicationPath |-> "", posterPath |-> poster,
     applicationId |-> appId, isCustom |-> FALSE]

\* lines 318-324
new_profile ==
    [name |-> "New Entry", applicationPath |-> "", posterPath |-> "",
     applicationId |-> "new-app-id", isCustom |-> TRUE]

Doc(hasApps, apps) == [hasApps |-> hasApps, apps |-> apps, parsed |-> TRUE]

\* json.dumps(...).encode("utf-8"): the BLOB holding a document
Encode(doc) == [kind |-> "json", doc |-> [hasApps |-> doc.hasApps, apps |-> doc.apps]]
EmptyBlob == [kind |-> "empty", doc |-> [hasApps |-> FALSE, apps |-> <<>>]]
BadBlob == [kind |-> "bad", doc |-> [hasApps |-> FALSE, apps |-> <<>>]]

\* lines 95-102: the parsed document of a BLOB, NoDoc when the row is skipped
Decode(blob) ==
    IF blob.kind = "json" THEN Doc(blob.doc.hasApps, blob.doc.apps) ELSE NoDoc

Row(id, blob) == [id |-> id, blob |-> blob]
RowIds == 1..3

\* ------------------------------------------------------------ DB helpers
\* lines 104-113: the entries one fetched row contributes
RowEntries(row) ==
    LET doc == Decode(row.blob)
    IN  IF doc.parsed /\ doc.hasApps
        THEN [i \in 1..Len(doc.apps) |-> [db_row_id |-> row.id, pos |-> i]]
        ELSE <<>>

\* lines 93-113: the loop over the fetched rows
RECURSIVE AllEntries(_)
AllEntries(rows) ==
    IF rows = <<>> THEN <<>>
    ELSE RowEntries(Head(rows)) \o AllEntries(Tail(rows))

\* the parsed_data objects the entries of a load share, by row id
ParsedDocs(rows) ==
    [id \in RowIds |->
        IF \E i \in DOMAIN rows : rows[i].id = id
        THEN Decode(rows[CHOOSE i \in DOMAIN rows : rows[i].id = id].blob)
        ELSE NoDoc]

ProfOf(docs, e) == docs[e.db_row_id].apps[e.pos]

\* line 116: list.sort(key=...) is stable; ties keep their load order
RECURSIVE SortEntries(_, _)
SortEntries(s, docs) ==
    IF s = <<>> THEN <<>>
    ELSE LET front == SortEntries(SubSeq(s, 1, Len(s) - 1), docs)
             e == s[Len(s)]
             k == Cardinality({i \in DOMAIN front :
                     SortKey(ProfOf(docs, front[i])) <= SortKey(ProfOf(docs, e))})
         IN  SubSeq(front, 1, k) \o <<e>> \o SubSeq(front, k + 1, Len(front))

\* lines 76-118. ok = FALSE: connect or query raised (lines 89-91)
load_profiles_from_db(rows, ok) ==
    IF ok
    THEN [profiles |-> SortEntries(AllEntries(rows), ParsedDocs(rows)),
          mem |-> ParsedDocs(rows)]
    ELSE [profiles |-> <<>>, mem |-> [id \in RowIds |-> NoDoc]]

\* lines 120-140. ok = FALSE: the UPDATE raised (lines 139-140)
save_profile_to_db(rows, row_id, entire_json, ok) ==
    IF ok
    THEN [i \in DOMAIN rows |->
            IF rows[i].id = row_id
            THEN [id |-> row_id, blob |-> Encode(entire_json)]
            ELSE rows[i]]
    ELSE rows

Reload_KeepCollection(rows, ok) == [profiles |-> profiles, mem |-> mem]

\* lines 332, 368, 476: the handlers' "# Reload" of self.profiles
Reload(rows, ok) == load_profiles_from_db(rows, ok)

\* what save_profile_to_db hands back to its caller: it has no return value
SaveReturn(ok) == None

\* ------------------------------------------------------------- handlers
Last(op, row, pos, wrote, loaded) ==
    [op |-> op, row |-> row, pos |-> pos, wrote |-> wrote, loaded |-> loaded,
     ret |-> IF op \in {"add_entry", "delete_entry", "save_changes"}
             THEN SaveReturn(wrote) ELSE "-"]

InRange(idx) == idx # NoIndex /\ idx \in 1..Len(profiles)

\* one more handler runs
Tick == ops < MaxOps /\ ops' = ops + 1

\* lines 295-303 for listbox index idx of collection ps over documents docs
SelectEffect(idx, ps, docs) ==
    /\ selected_profile_index' = idx
    /\ name_entry_var' = Get(ProfOf(docs, ps[idx]).name, "")
    /\ app_path_var' = Get(ProfOf(docs, ps[idx]).applicationPath, "")
    /\ icon_path_var' = Get(ProfOf(docs, ps[idx]).posterPath, "")

\* lines 288-303: <<ListboxSelect>> from a click on the listbox
on_profile_select ==
    /\ Tick
    /\ /\ \/ \E idx \in 1..Len(profiles) : SelectEffect(idx, profiles, mem)
          \/ /\ profiles = <<>>              \* curselection() is empty
             /\ selected_profile_index' = NoIndex
             /\ UNCHANGED <<name_entry_var, app_path_var, icon_path_var>>
       /\ last' = Last("select", 0, 0, FALSE, FALSE)
       /\ UNCHANGED <<db, files, mem, profiles, dialog>>

\* the user types into one of the three Entry widgets (lines 219-239)
EditName ==
    /\ Tick
    /\ /\ \E n \in TypedNames : name_entry_var' = n
       /\ last' = Last("edit", 0, 0, FALSE, FALSE)
       /\ UNCHANGED <<db, files, mem, profiles, selected_profile_index,
                      app_path_var, icon_path_var, dialog>>

EditAppPath ==
    /\ Tick
    /\ /\ \E p \in TypedAppPaths : app_path_var' = p
       /\ last' = Last("edit", 0, 0, FALSE, FALSE)
       /\ UNCHANGED <<db, files, mem, profiles, selected_profile_index,
                      name_entry_var, icon_path_var, dialog>>

EditIconPath ==
    /\ Tick
    /\ /\ \E p \in TypedIconPaths : icon_path_var' = p
       /\ last' = Last("edit", 0, 0, FALSE, FALSE)
       /\ UNCHANGED <<db, files, mem, profiles, selected_profile_index,
                      name_entry_var, app_path_var, dialog>>

\* lines 336-344 and 480-489: select the first entry carrying that name
FirstNamed(ps, docs, name) ==
    LET hits == {i \in DOMAIN ps : ProfOf(docs, ps[i]).name = name}
    IN  IF hits = {} THEN NoIndex
        ELSE CHOOSE i \in hits : \A j \in hits : i <= j

AutoSelect(ps, docs, name) ==
    IF FirstNamed(ps, docs, name) # NoIndex
    THEN SelectEffect(FirstNamed(ps, docs, name), ps, docs)
    ELSE UNCHANGED <<selected_profile_index, name_entry_var, app_path_var,
                     icon_path_var>>

AddTargetRow_LastEntry == profiles[Len(profiles)].db_row_id

\* lines 313-327: the document of the first entry with new_profile appended
AddTargetRow == profiles[1].db_row_id

AddedDoc(doc) == Doc(TRUE, Append(doc.apps, new_profile))

\* lines 308-344
add_entry ==
    /\ Tick
    /\ IF profiles = <<>>
       THEN /\ dialog' = "No DB Rows"
            /\ last' = Last("add_entry_refused", 0, 0, FALSE, FALSE)
            /\ UNCHANGED <<db, files, mem, profiles, selected_profile_index,
                           name_entry_var, app_path_var, icon_path_var>>
       ELSE LET row_id == AddTargetRow
                entire_json == AddedDoc(mem[row_id])
            IN  /\ Len(mem[row_id].apps) < MaxApps
                /\ \E wrote \in BOOLEAN, loaded \in BOOLEAN :
                     LET rows == save_profile_to_db(db, row_id, entire_json, wrote)
                         r == Reload(rows, loaded)
                     IN  /\ db' = rows
                         /\ profiles' = r.profiles
                         /\ mem' = r.mem
                         /\ AutoSelect(r.profiles, r.mem, "New Entry")
                         /\ last' = Last("add_entry", row_id,
                                         Len(entire_json.apps), wrote, loaded)
                /\ UNCHANGED <<files, dialog>>

RemoveFirst_LastMatch(list, x) ==
    LET hits == {i \in DOMAIN list : list[i] = x}
    IN  IF hits = {} THEN list
        ELSE LET i == CHOOSE k \in hits : \A j \in hits : k >= j
             IN  SubSeq(list, 1, i - 1) \o SubSeq(list, i + 1, Len(list))

\* list.remove(x): drops the first element equal to x (lines 361-362)
RemoveFirst(list, x) ==
    LET hits == {i \in DOMAIN list : list[i] = x}
    IN  IF hits = {} THEN list
        ELSE LET i == CHOOSE k \in hits : \A j \in hits : k <= j
             IN  SubSeq(list, 1, i - 1) \o SubSeq(list, i + 1, Len(list))

\* lines 360-363
DeletedDoc(doc, prof_to_delete) == Doc(TRUE, RemoveFirst(doc.apps, prof_to_delete))

\* a callback that indexes self.profiles out of range dies with IndexError
IndexErrorEffect(op) ==
    /\ dialog' = "IndexError"
    /\ last' = Last(op, 0, 0, FALSE, FALSE)
    /\ UNCHANGED <<db, files, mem, profiles, selected_profile_index,
                   name_entry_var, app_path_var, icon_path_var>>

NoSelectionEffect(text) ==
    /\ dialog' = text
    /\ last' = Last("no_selection", 0, 0, FALSE, FALSE)
    /\ UNCHANGED <<db, files, mem, profiles, selected_profile_index,
                   name_entry_var, app_path_var, icon_path_var>>

\* lines 346-376
delete_entry ==
    /\ Tick
    /\ IF selected_profile_index = NoIndex THEN NoSelectionEffect("No selection")
       ELSE \E confirm \in BOOLEAN :
           IF ~confirm
           THEN /\ dialog' = "Delete Entry"
                /\ last' = Last("delete_declined", 0, 0, FALSE, FALSE)
                /\ UNCHANGED <<db, files, mem, profiles, selected_profile_index,
                               name_entry_var, app_path_var, icon_path_var>>
           ELSE IF ~InRange(selected_profile_index)
           THEN IndexErrorEffect("delete_index_error")
           ELSE LET item == profiles[selected_profile_index]
                    row_id == item.db_row_id
                    entire_json == DeletedDoc(mem[row_id], ProfOf(mem, item))
                IN  \E wrote \in BOOLEAN, loaded \in BOOLEAN :
                      LET rows == save_profile_to_db(db, row_id, entire_json, wrote)
                          r == Reload(rows, loaded)
                      IN  /\ db' = rows
                          /\ profiles' = r.profiles
                          /\ mem' = r.mem
                          /\ selected_profile_index' = NoIndex
                          /\ name_entry_var' = ""
                          /\ app_path_var' = ""
                          /\ icon_path_var' = ""
                          /\ dialog' = "Delete Entry"
                          /\ last' = Last("delete_entry", row_id, item.pos, wrote, loaded)
                          /\ UNCHANGED files

\* lines 403-414: where the converted bitmap goes
FinalPath(prof) ==
    LET existing_path == Strip(Get(prof.posterPath, ""))
    IN  IF existing_path # "" THEN ForceBmp(existing_path)
        ELSE CachePath(SafeName(prof.name))

BoundPath_CacheOnly(prof) == CachePath(SafeName(prof.name))

\* line 424: the path browse_icon binds once the bitmap is written
BoundPath(prof) == FinalPath(prof)

SetPoster(docs, e, path) ==
    [docs EXCEPT ![e.db_row_id].apps[e.pos].posterPath = path]

\* lines 381-426. picked: what the file dialog and Image.open yield
browse_icon ==
    /\ Tick
    /\ IF selected_profile_index = NoIndex THEN NoSelectionEffect("No Profile")
       ELSE \E picked \in {"cancel", "unreadable", "image"} :
           CASE picked = "cancel" ->
                  /\ last' = Last("browse_cancel", 0, 0, FALSE, FALSE)
                  /\ UNCHANGED <<db, files, mem, profiles, selected_profile_index,
                                 name_entry_var, app_path_var, icon_path_var, dialog>>
             [] picked = "unreadable" ->
                  /\ dialog' = "Could not open image file"
                  /\ last' = Last("browse_unreadable", 0, 0, FALSE, FALSE)
                  /\ UNCHANGED <<db, files, mem, profiles, selected_profile_index,
                                 name_entry_var, app_path_var, icon_path_var>>
             [] OTHER ->
                  IF ~InRange(selected_profile_index)
                  THEN IndexErrorEffect("browse_index_error")
                  ELSE LET item == profiles[selected_profile_index]
                           prof == ProfOf(mem, item)
                           final_path == FinalPath(prof)
                       IN  \E written \in BOOLEAN :
                             IF written
                             THEN /\ files' = files \cup {final_path}
                                  /\ mem' = SetPoster(mem, item, BoundPath(prof))
                                  /\ icon_path_var' = BoundPath(prof)
                                  /\ last' = Last("browse_icon", item.db_row_id,
                                                  item.pos, TRUE, FALSE)
                                  /\ UNCHANGED <<db, profiles, selected_profile_index,
                                                 name_entry_var, app_path_var, dialog>>
                             ELSE \* img.save raised: the target may be left truncated
                                  /\ files' \in {files, files \ {final_path}}
                                  /\ dialog' = "Could not save BMP"
                                  /\ last' = Last("browse_write_failed", item.db_row_id,
                                                  item.pos, FALSE, FALSE)
                                  /\ UNCHANGED <<db, mem, profiles, selected_profile_index,
                                                 name_entry_var, app_path_var,
                                                 icon_path_var>>

\* lines 428-437
clear_icon ==
    /\ Tick
    /\ IF selected_profile_index = NoIndex THEN NoSelectionEffect("No Profile")
       ELSE IF ~InRange(selected_profile_index)
       THEN IndexErrorEffect("clear_index_error")
       ELSE LET item == profiles[selected_profile_index]
            IN  /\ mem' = SetPoster(mem, item, "")
                /\ icon_path_var' = ""
                /\ last' = Last("clear_icon", item.db_row_id, item.pos, FALSE, FALSE)
                /\ UNCHANGED <<db, files, profiles, selected_profile_index,
                               name_entry_var, app_path_var, dialog>>

EditedProf_Rebuilt(prof) ==
    [name |-> name_entry_var, applicationPath |-> app_path_var,
     posterPath |-> icon_path_var, applicationId |-> "new-app-id",
     isCustom |-> TRUE]

\* lines 469-471: the record with the three form values written into it
EditedProf(prof) ==
    [prof EXCEPT !.name = name_entry_var,
                 !.applicationPath = app_path_var,
                 !.posterPath = icon_path_var]

\* line 473: the row save_changes writes
SaveTargetRow(item) == item.db_row_id

\* lines 459-492
save_changes ==
    /\ Tick
    /\ IF selected_profile_index = NoIndex THEN NoSelectionEffect("No Profile")
       ELSE IF ~InRange(selected_profile_index)
       THEN IndexErrorEffect("save_index_error")
       ELSE LET item == profiles[selected_profile_index]
                row_id == SaveTargetRow(item)
                prof == EditedProf(ProfOf(mem, item))
                entire_json == [mem[item.db_row_id] EXCEPT !.apps[item.pos] = prof]
            IN  \E wrote \in BOOLEAN, loaded \in BOOLEAN :
                  LET rows == save_profile_to_db(db, row_id, entire_json, wrote)
                      r == Reload(rows, loaded)
                  IN  /\ db' = rows
                      /\ profiles' = r.profiles
                      /\ mem' = r.mem
                      /\ AutoSelect(r.profiles, r.mem, prof.name)
                      /\ dialog' = "Saved"
                      /\ last' = Last("save_changes", item.db_row_id, item.pos,
                                      wrote, loaded)
                      /\ UNCHANGED files

\* ------------------------------------------------------------ initial DB
PA == Profile("a", "", "id1")
PB == Profile("B", "/x/old.png", "id2")
Pb == Profile("b", "", "id3")
PN == Profile(Absent, "", "id4")

Apps(list) == Encode(Doc(TRUE, list))

\* tables the editor may be started on; _id need not follow storage order
InitDBs ==
    {<<>>,
     <<Row(1, Apps(<<>>))>>,
     <<Row(1, Encode(Doc(FALSE, <<>>))), Row(2, EmptyBlob)>>,
     <<Row(2, Apps(<<Pb, PA>>)), Row(1, Apps(<<PB>>))>>,
     <<Row(3, Apps(<<Pb>>)), Row(1, Apps(<<PA>>))>>,
     <<Row(2, BadBlob), Row(3, Apps(<<PN, PB>>)), Row(1, EmptyBlob)>>,
     <<Row(2, Encode(Doc(FALSE, <<>>))), Row(1, Apps(<<PB, PA>>))>>,
     <<Row(1, Apps(<<PA, PB, PA>>))>>}

InitFiles == {"/x/old.png"}

\* lines 146-166: the state once GHubEditorApp is constructed
Init ==
    /\ db \in InitDBs
    /\ files = InitFiles
    /\ mem = load_profiles_from_db(db, TRUE).mem
    /\ profiles = load_profiles_from_db(db, TRUE).profiles
    /\ selected_profile_index = NoIndex
    /\ name_entry_var = ""
    /\ app_path_var = ""
    /\ icon_path_var = ""
    /\ dialog = "none"
    /\ last = Last("init", 0, 0, FALSE, TRUE)
    /\ ops = 0

Next ==
    \/ on_profile_select
    \/ EditName
    \/ EditAppPath
    \/ EditIconPath
    \/ add_entry
    \/ delete_entry
    \/ browse_icon
    \/ clear_icon
    \/ save_changes

Spec == Init /\ [][Next]_vars

\* ------------------------------------------------------------ properties
WriteOps == {"add_entry", "delete_entry", "save_changes"}

\* the applications list stored on disk in the row with identifier id
StoredApps(rows, id) == ParsedDocs(rows)[id].apps

OtherRowsSame(id) == \A i \in DOMAIN db : db[i].id # id => db'[i] = db[i]

\* list with its element at index k taken out
Without(list, k) == SubSeq(list, 1, k - 1) \o SubSeq(list, k + 1, Len(list))

\* C1: every create / update / delete changes on disk only the profile it
\* targets: each sibling record of the written row and the document of
\* every other row are the same on disk before and after the operation.
C1_OnlyTargetChanges ==
    [][last'.op \in WriteOps =>
         LET old == StoredApps(db, last'.row)
             new == StoredApps(db', last'.row)
         IN  /\ OtherRowsSame(last'.row)
             /\ last'.op = "add_entry" =>
                    new \in {old, Append(old, new_profile)}
             /\ last'.op = "delete_entry" =>
                    \/ new = old
                    \/ \E k \in DOMAIN old : new = Without(old, k)
             /\ last'.op = "save_changes" =>
                    /\ Len(new) = Len(old)
                    /\ \A k \in DOMAIN old : k # last'.pos => new[k] = old[k]]_vars

\* C2: create followed by load: the collection grows by exactly one, the new
\* entry equals the seed record, and every entry that existed before is
\* unchanged and still attached to the same row.
C2_CreateAddsOne ==
    [][(last'.op = "add_entry" /\ last'.wrote /\ last'.loaded) =>
         /\ Len(profiles') = Len(profiles) + 1
         /\ \E j \in DOMAIN profiles' :
              /\ profiles'[j] = [db_row_id |-> last'.row, pos |-> last'.pos]
              /\ ProfOf(mem', profiles'[j]) = new_profile
         /\ \A i \in DOMAIN db :
              \A k \in DOMAIN StoredApps(db, db[i].id) :
                 /\ k \in DOMAIN StoredApps(db', db[i].id)
                 /\ StoredApps(db', db[i].id)[k] = StoredApps(db, db[i].id)[k]]_vars

\* C3: delete(entry) followed by load: the collection shrinks by exactly one,
\* the element removed from the owning list is the first one structurally
\* equal to the entry's record, and no row other than the owning row has its
\* stored document changed.
C3_DeleteRemovesOne ==
    [][last'.op = "delete_entry" =>
         LET held == mem[last'.row].apps
             rec == held[last'.pos]
             new == StoredApps(db', last'.row)
         IN  /\ OtherRowsSame(last'.row)
             /\ (last'.wrote /\ last'.loaded) =>
                  /\ Len(profiles') = Len(profiles) - 1
                  /\ \E k \in DOMAIN held :
                       /\ held[k] = rec
                       /\ \A j \in 1..(k - 1) : held[j] # rec
                       /\ new = Without(held, k)]_vars

\* a delete that went through on a list holding the deleted record twice:
\* the later copy was selected, the earlier one is gone
C3_Witness ==
    /\ last.op = "delete_entry" /\ last.wrote /\ last.loaded
    /\ last.pos = 3
    /\ StoredApps(db, last.row) = <<PB, PA>>

\* the record an entry refers to, as stored on disk
DiskRec(rows, e) == StoredApps(rows, e.db_row_id)[e.pos]

LoweredRank(prof) == StrRank(Lower(Get(prof.name, "")))

\* ps lists each element of each parsable row's applications array exactly
\* once, under that row's identifier, in order of lower-cased name
IsMaterialization(ps, rows) ==
    /\ \A j \in DOMAIN ps :
         \E i \in DOMAIN rows :
            /\ rows[i].id = ps[j].db_row_id
            /\ rows[i].blob.kind = "json"
            /\ rows[i].blob.doc.hasApps
            /\ ps[j].pos \in DOMAIN rows[i].blob.doc.apps
    /\ \A i \in DOMAIN rows :
         (rows[i].blob.kind = "json" /\ rows[i].blob.doc.hasApps) =>
            \A k \in DOMAIN rows[i].blob.doc.apps :
               Cardinality({j \in DOMAIN ps :
                   ps[j] = [db_row_id |-> rows[i].id, pos |-> k]}) = 1
    /\ \A j1, j2 \in DOMAIN ps :
         j1 < j2 => LoweredRank(DiskRec(rows, ps[j1])) <= LoweredRank(DiskRec(rows, ps[j2]))

NamedCount(ps, docs, name) ==
    Cardinality({j \in DOMAIN ps : ProfOf(docs, ps[j]).name = name})

\* C4 as stated: update(entry, {name: X}) followed by load leaves exactly one
\* entry named X, whose applicationPath, posterPath and passthrough fields
\* are as before.
C4_ExactlyOneNamed ==
    [][(/\ last'.op = "save_changes" /\ last'.wrote /\ last'.loaded
        /\ app_path_var = mem[last'.row].apps[last'.pos].applicationPath
        /\ icon_path_var = mem[last'.row].apps[last'.pos].posterPath) =>
         /\ NamedCount(profiles', mem', name_entry_var) = 1
         /\ mem'[last'.row].apps[last'.pos] =
              [mem[last'.row].apps[last'.pos] EXCEPT !.name = name_entry_var]]_vars

\* C4 (amended): update followed by load: the updated record carries the new
\* name, the entries carrying that name are it and the other profiles that
\* already had the name (so exactly one when no other profile had it), and
\* its applicationPath, posterPath take the form's values (unchanged when
\* the form still holds them) while its passthrough fields are unchanged.
C4_UpdateSetsName ==
    [][(last'.op = "save_changes" /\ last'.wrote /\ last'.loaded) =>
         LET e == [db_row_id |-> last'.row, pos |-> last'.pos]
             old == ProfOf(mem, e)
             new == DiskRec(db', e)
         IN  /\ new.name = name_entry_var
             /\ \E j \in DOMAIN profiles' :
                  profiles'[j] = e /\ ProfOf(mem', e) = new
             /\ NamedCount(profiles', mem', name_entry_var) =
                  1 + Cardinality({j \in DOMAIN profiles :
                        /\ profiles[j] # e
                        /\ ProfOf(mem, profiles[j]).name = name_entry_var})
             /\ new.applicationId = old.applicationId
             /\ new.isCustom = old.isCustom
             /\ new.applicationPath = app_path_var
             /\ new.posterPath = icon_path_var
             /\ app_path_var = old.applicationPath =>
                  new.applicationPath = old.applicationPath
             /\ icon_path_var = old.posterPath =>
                  new.posterPath = old.posterPath]_vars

\* a profile was renamed to the fresh name X beside another profile
C4_Witness ==
    /\ last.op = "save_changes" /\ last.wrote /\ last.loaded
    /\ Len(profiles) >= 2
    /\ ProfOf(mem, [db_row_id |-> last.row, pos |-> last.pos]).name = "X"
    /\ ProfOf(mem, [db_row_id |-> last.row, pos |-> last.pos]).applicationId = "id2"
    /\ NamedCount(profiles, mem, "X") = 1

\* C5: load returns exactly one entry per element of the applications array
\* of every row whose BLOB parses, carrying that row's identifier, ordered
\* by lower-cased name (absent name as ""); rows with an empty or unparsable
\* BLOB contribute nothing and do not stop the others from loading.
C5_LoadReturnsEveryProfile ==
    IsMaterialization(load_profiles_from_db(db, TRUE).profiles, db)

\* a table with an unparsable and an empty BLOB around a row whose profiles,
\* one of them unnamed, were loaded together with a newly added one
C5_Witness ==
    /\ \E i \in DOMAIN db : db[i].blob.kind = "bad"
    /\ \E i \in DOMAIN db : db[i].blob.kind = "empty"
    /\ last.op = "add_entry" /\ last.wrote /\ last.loaded
    /\ Len(profiles) = 3
    /\ profiles = load_profiles_from_db(db, TRUE).profiles
    /\ ProfOf(mem, profiles[1]).name = Absent

\* the row loadAll returns first: the first stored row whose BLOB parses
FirstLoadedRow(rows) ==
    LET ok == {i \in DOMAIN rows : Decode(rows[i].blob).parsed}
    IN  IF ok = {} THEN 0
        ELSE rows[CHOOSE i \in ok : \A j \in ok : i <= j].id

\* C6 as stated: create appends the seed to the list of the row loadAll
\* returned first in storage order, and passes that row to saveRow.
C6_FirstStoredRow ==
    [][last'.op = "add_entry" => last'.row = FirstLoadedRow(db)]_vars

\* the row owning the first profile of least lower-cased name, in load order
FirstSortedRow(rows) ==
    LET es == AllEntries(rows)
        least == {j \in DOMAIN es :
                    \A k \in DOMAIN es :
                       LoweredRank(DiskRec(rows, es[j])) <= LoweredRank(DiskRec(rows, es[k]))}
    IN  es[CHOOSE j \in least : \A k \in least : j <= k].db_row_id

\* C6 (amended): create appends the seed to the list of the row that owns
\* the first entry of the sorted collection (the profile of least lower-cased
\* name), and that row is the one written; it need not be the first row in
\* storage order.
C6_FirstSortedEntryRow ==
    [][last'.op = "add_entry" =>
         /\ last'.row = FirstSortedRow(db)
         /\ OtherRowsSame(last'.row)
         /\ last'.wrote =>
              StoredApps(db', last'.row) =
                 Append(mem[last'.row].apps, new_profile)]_vars

\* the seed went to a row that is not the first parsable row of the table
C6_Witness ==
    /\ last.op = "add_entry" /\ last.wrote
    /\ last.row # FirstLoadedRow(db)
    /\ StoredApps(db, last.row)[last.pos] = new_profile

\* C7: create is refused (NoRowsAvailable, nothing written) exactly when no
\* row was loaded; with at least one loaded row, even one without an
\* applications list or with an empty one, it goes ahead.
C7_RefusedIffNoRows ==
    [][last'.op \in {"add_entry", "add_entry_refused"} =>
         ((last'.op = "add_entry_refused" /\ db' = db)
            <=> (\A id \in RowIds : ~mem[id].parsed))]_vars

\* C8: saveRow reports failure to its caller when the write fails, and
\* success otherwise.
C8_SaveReportsFailure ==
    (last.op \in WriteOps /\ ~last.wrote) => last.ret # SaveReturn(TRUE)

InMemoryIsOnDisk ==
    /\ IsMaterialization(profiles, db)
    /\ \A j \in DOMAIN profiles : ProfOf(mem, profiles[j]) = DiskRec(db, profiles[j])

\* C9 as stated: right after every create, update and delete the in-memory
\* collection is the sorted materialization of the documents on disk.
C9_MemoryEqualsDisk == last.op \in WriteOps => InMemoryIsOnDisk

\* C9 (amended): right after every create, update and delete whose reload
\* could read the database the in-memory collection is the sorted
\* materialization of the documents on disk, whether or not the write went
\* through; when the reload fails the collection is empty.
C9_RebuiltWhenReloadSucceeds ==
    last.op \in WriteOps =>
        IF last.loaded THEN InMemoryIsOnDisk ELSE profiles = <<>>

\* a failed write after which the reload rebuilt a collection of two or more
C9_Witness ==
    /\ last.op = "save_changes" /\ ~last.wrote /\ last.loaded
    /\ Len(profiles) >= 2
    /\ name_entry_var = "X"

\* C10 as stated: every operation that sets a posterPath to a non-empty
\* value binds a path at which a valid bitmap exists at that moment.
C10_BoundPathIsBitmap ==
    [][/\ last'.op = "browse_icon" =>
            mem'[last'.row].apps[last'.pos].posterPath \in files'
       /\ (last'.op = "save_changes" /\ last'.wrote) =>
            LET new == StoredApps(db', last'.row)[last'.pos].posterPath
            IN  new \notin {"", StoredApps(db, last'.row)[last'.pos].posterPath}
                   => new \in files']_vars

\* C10 (amended): importIcon binds a path at which it has just written a
\* bitmap, and a failed import leaves every posterPath as it was; update
\* binds the text of the icon path field as it stands.
C10_ImportBindsWrittenBitmap ==
    [][/\ last'.op = "browse_icon" =>
            LET p == mem'[last'.row].apps[last'.pos].posterPath
            IN  p # "" /\ p \in files' /\ icon_path_var' = p
       /\ last'.op \in {"browse_unreadable", "browse_write_failed"} =>
            mem' = mem /\ db' = db /\ icon_path_var' = icon_path_var
       /\ (last'.op = "save_changes" /\ last'.wrote) =>
            StoredApps(db', last'.row)[last'.pos].posterPath = icon_path_var]_vars

\* an import over an existing binding: the bound path has its extension
\* forced and holds the bitmap
C10_Witness ==
    /\ last.op = "browse_icon"
    /\ mem[last.row].apps[last.pos].posterPath = "/x/old.bmp"
    /\ "/x/old.bmp" \in files

\* C11: in every reachable state, also after a save or a reload of the
\* database failed, the selected profile index is none or a valid position
\* in the in-memory collection, so no handler indexes the collection out of
\* range.
C11_SelectedIndexValid ==
    /\ selected_profile_index = NoIndex \/ selected_profile_index \in 1..Len(profiles)
    /\ dialog # "IndexError"

====
